---- MODULE Spec2Model ----
(***************************************************************************)
(* The tunnel reconciler of cloudflare-controller-rs.                      *)
(*                                                                         *)
(* One Tunnel custom resource (namespace `namespace`, name `name`) lives   *)
(* in the cluster together with its owned Secret and Deployment, the       *)
(* referenced Credentials object and the remote (Cloudflare) tunnels.      *)
(* The controller reads the object from its reflector store, which lags    *)
(* behind the cluster until the watch delivers the change, and runs        *)
(* `reconciler` on that revision.  Two builds of the reconciler are        *)
(* modelled: "crate" (crates/tunnel-controller/src/lib.rs with the Tunnel  *)
(* methods of src/crd/tunnel.rs) and "operator"                            *)
(* (src/operator/tunnel_controller.rs with src/operator/crd/tunnel.rs and  *)
(* the resources modules).                                                 *)
(*                                                                         *)
(* The ingress engine (crates/ingress-controller/src/lib.rs) resolves an   *)
(* Ingress to a tunnel through the IngressClass store and the tunnel       *)
(* store.  The client of the remote API (crates/cloudflarext/src/lib.rs)   *)
(* maps each HTTP response to an ApiResponse.                              *)
(*                                                                         *)
(* Spec is the tunnel controller at work, ClusterScopedSpec the same on an *)
(* object without namespace, IngressSpec the ingress engine at work,       *)
(* IngressLive the ingress engine with its scheduling, ResponseSpec the   *)
(* response mapping at work, and FinalizerSpec the two finalizer methods   *)
(* called on tunnel objects with every finalizer list.                     *)
(***************************************************************************)
EXTENDS Integers, Sequences, FiniteSets, TLC

VARIABLES
    build,            \* which reconciler is linked: "crate" or "operator"
    name,             \* metadata.name of the tunnel object
    tunnel,           \* the tunnel object in the cluster
    other,            \* the tunnel object named like the namespace, when that is another object
    store,            \* the reflector store's revision of the tunnel object
    storeBehind,      \* the cluster object's resourceVersion is newer than the store's
    secret,           \* the owned Secret (namespace, name) exists
    deployment,       \* the owned Deployment (namespace, name) exists
    credentials,      \* the Credentials object named by spec.credentials exists
    remote,           \* ids of the tunnels that exist at the remote API
    created,          \* number of successful createTunnel calls so far
    resourcesCreated, \* both owned resources were created by a reconcile
    queued,           \* the object key is in the controller's work queue
    requeue,          \* the Action the controller holds for the key
    up,               \* the controller process is running
    last,             \* what the last reconcile did
    ingress,             \* the Ingress object in the ingress store
    ingress_class_store, \* the IngressClass store: class name -> IngressClass
    tunnel_store,        \* the tunnel store the ingress engine reads: name -> Tunnel
    ingress_queued,      \* the Ingress key is in the ingress controller's work queue
    ingress_requeue,     \* the Action the ingress controller holds for the key
    ingress_last,        \* what the ingress engine did last
    class_store_ready,   \* the class store has taken its initial list
    tunnel_store_ready,  \* the tunnel store has taken its initial list
    ingress_start,       \* where IngressController::start is: "wait_until_ready" or "run"
    response,            \* the HTTP response of the remote API that map_api_response is given
    mapped               \* the ApiResponse map_api_response made of it

tunnelVars == <<build, name, tunnel, other, store, storeBehind, secret, deployment,
                credentials, remote, created, resourcesCreated, queued, requeue, up, last>>

ingressVars == <<ingress, ingress_class_store, tunnel_store, ingress_queued,
                 ingress_requeue, ingress_last, class_store_ready, tunnel_store_ready,
                 ingress_start>>

responseVars == <<response, mapped>>

vars == <<tunnelVars, ingressVars, responseVars>>

---------------------------------------------------------------------------
(* Bounds and program constants *)

\* at most this many remote tunnels are ever created
MaxCreate == 2

RECONCILE_TIMER == 60

MISSING_CREDENTIALS_REQUEUE == 120

FINALIZER_NAME == "tunnel.cloudflare.ar2ro.io/finalizer"

\* a finalizer some other actor put on the object
OtherFinalizer == "example.com/other"

Namespace == "ns1"

Names == {"t1", "ns1"}

Builds == {"crate", "operator"}

---------------------------------------------------------------------------
(* Data *)

\* Option<T>: the empty set or a set of one value
Absent == {}

Present(x) == {x}

Unwrap(o) == CHOOSE x \in o : TRUE

UnwrapOr(o, d) == IF o = Absent THEN d ELSE Unwrap(o)

\* Option<Vec<String>> of metadata.finalizers
None == [some |-> FALSE, items |-> {}]

Some(items) == [some |-> TRUE, items |-> items]

\* the API server never stores an empty finalizer list: it omits the field
Stored(f) == IF f.items = {} THEN None ELSE Some(f.items)

\* spec.replicas of a tunnel as it is applied
DefaultReplicas == 1

ReplicaValues == {1, 2}

NoObject ==
    [exists |-> FALSE, namespace |-> Present(Namespace), uuid |-> 0,
     replicas |-> DefaultReplicas, finalizers |-> None, deletion_timestamp |-> FALSE]

NewTunnel ==
    [exists |-> TRUE, namespace |-> Present(Namespace), uuid |-> 0,
     replicas |-> DefaultReplicas, finalizers |-> None, deletion_timestamp |-> FALSE]

\* a Tunnel object whose metadata.namespace is None, as the objects of a
\* cluster-scoped resource are
ClusterScopedTunnel == [NewTunnel EXCEPT !.namespace = Absent]

\* kube::runtime::controller::Action
Requeue(secs) == [kind |-> "Requeue", secs |-> secs, err |-> "none"]

AwaitChange == [kind |-> "AwaitChange", secs |-> 0, err |-> "none"]

\* Result<Action, Error>::Err
Err(e) == [kind |-> "Err", secs |-> 0, err |-> e]

\* the process died inside the reconcile: no result
Crashed == [kind |-> "Crashed", secs |-> 0, err |-> "none"]

NotRun == [kind |-> "none", secs |-> 0, err |-> "none"]

IsSuccess(code) == code >= 200 /\ code < 300

---------------------------------------------------------------------------
(* One reconcile is a run `r`: the cluster and remote state it has produced *)
(* so far, the calls it has made, and its result once it has returned.      *)

\* The calls of one reconcile are numbered from 1; call number env.failAt
\* meets a fault: the process dies before making it (env.how = "crash") or
\* it answers with the status 500 (env.how = "error"), or no usable answer
\* comes back: the transport fails or the body cannot be parsed
\* (env.how = "invalid"), logged with the code NoStatus.
FaultPoints == 0 .. 7

\* calls the outside may answer 403 Forbidden to and the code goes on
SwallowedOps == {"deleteTunnel", "deleteDeployment"}

\* the code logged for a request that got no usable answer
NoStatus == 0

Envs ==
    [failAt : FaultPoints, how : {"error", "invalid", "crash"}, forbidden : SUBSET SwallowedOps]

Logged(r, op, code) ==
    [r EXCEPT !.calls = Append(@, [op |-> op, code |-> code]),
              !.code = code,
              !.ok = IsSuccess(code)]

\* one request/response: `real` is the status the service answers in the
\* state of r and `after` is r with the effect of the request
Call(r, op, env, real, after) ==
    IF r.done THEN r
    ELSE IF env.failAt = Len(r.calls) + 1
         THEN IF env.how = "crash"
              THEN [r EXCEPT !.done = TRUE, !.ok = FALSE, !.res = Crashed]
              ELSE Logged(r, op, IF env.how = "invalid" THEN NoStatus ELSE 500)
    ELSE IF op \in env.forbidden THEN Logged(r, op, 403)
    ELSE Logged(IF IsSuccess(real) THEN after ELSE r, op, real)

\* `return`
Return(r, res) == IF r.done THEN r ELSE [r EXCEPT !.done = TRUE, !.res = res]

\* a panic inside the reconcile: the reconcile has no result
Panic(r) == IF r.done THEN r ELSE [r EXCEPT !.done = TRUE, !.ok = FALSE, !.res = Crashed]

\* `let v = e;` and the rest of the function body: e is computed once
Let(e, Rest(_)) == CHOOSE out \in {Rest(v) : v \in {e}} : TRUE

\* the API server deletes an object whose deletion was requested once its
\* finalizer list is empty
Collected(t) == IF t.deletion_timestamp /\ ~t.finalizers.some THEN NoObject ELSE t

---------------------------------------------------------------------------
(* Cluster API and remote API requests *)

\* Api<Credentials>::get_opt(name): 404 is Ok(None)
get_opt_credentials(r, env) ==
    Call(r, "getCredentials", env, IF credentials THEN 200 ELSE 404, r)

\* CloudflaredTunnel::get_tunnel
cf_get_tunnel(r, id, env) ==
    Call(r, "getTunnel", env, IF id \in r.remote THEN 200 ELSE 404, [r EXCEPT !.id = id])

\* CloudflaredTunnel::create_tunnel: the remote side makes a tunnel with a fresh id
cf_create_tunnel(r, env) ==
    Call(r, "createTunnel", env, IF r.created < MaxCreate THEN 200 ELSE 500,
         [r EXCEPT !.created = @ + 1, !.remote = @ \cup {r.created + 1}, !.id = r.created + 1])

\* CloudflaredTunnel::get_tunnel_token
cf_get_tunnel_token(r, id, env) ==
    Call(r, "getTunnelToken", env, IF id \in r.remote THEN 200 ELSE 404, r)

\* CloudflaredTunnel::delete_tunnel
cf_delete_tunnel(r, id, env) ==
    Call(r, "deleteTunnel", env, IF id \in r.remote THEN 200 ELSE 404,
         [r EXCEPT !.remote = @ \ {id}])

\* Api<Deployment>::create
api_create_deployment(r, env) ==
    Call(r, "createDeployment", env, IF r.deployment THEN 409 ELSE 201,
         [r EXCEPT !.deployment = TRUE])

\* Api<Secret>::create
api_create_secret(r, env) ==
    Call(r, "createSecret", env, IF r.secret THEN 409 ELSE 201, [r EXCEPT !.secret = TRUE])

\* Api<Deployment>::delete
api_delete_deployment(r, env) ==
    Call(r, "deleteDeployment", env, IF r.deployment THEN 200 ELSE 404,
         [r EXCEPT !.deployment = FALSE])

\* Api<Secret>::delete
api_delete_secret(r, env) ==
    Call(r, "deleteSecret", env, IF r.secret THEN 200 ELSE 404, [r EXCEPT !.secret = FALSE])

\* the object after a merge patch whose body is the whole revision gen with
\* spec.uuid = id: fields of the body replace the stored ones, fields the body
\* lacks (finalizers: None is not serialized) stay
MergedRevision(t, gen, id) ==
    [t EXCEPT !.uuid = id,
              !.replicas = gen.replicas,
              !.finalizers = IF gen.finalizers.some THEN gen.finalizers ELSE @]

\* PatchPrecondition that does not compare resourceVersion
PatchPreconditionNone(r) == IF ~r.tunnel.exists THEN 404 ELSE 200

\* the body carries the revision's metadata.resourceVersion, so the API server
\* answers 409 Conflict when the cluster object is newer than that revision
PatchPrecondition(r) == IF ~r.tunnel.exists THEN 404 ELSE IF r.written THEN 409 ELSE 200

\* crd_api.patch(&name, .., Patch::Merge(crd)) with crd the reconciled revision
\* and spec.uuid set
patch_uuid(r, gen, id, env) ==
    Call(r, "patchUuid", env, PatchPrecondition(r),
         [r EXCEPT !.tunnel = MergedRevision(@, gen, id), !.written = TRUE])

\* a merge patch of metadata.finalizers alone, on the tunnel object called
\* `target` in the namespace: the list is replaced as a whole, null removes it;
\* no finalizer may be added to an object whose deletion was requested (422)
PatchedFinalizers(t, fin) == Collected([t EXCEPT !.finalizers = Stored(fin)])

PatchStatus(t, fin) ==
    IF ~t.exists THEN 404
    ELSE IF t.deletion_timestamp /\ ~(fin.items \subseteq t.finalizers.items) THEN 422
    ELSE 200

patch_finalizers(r, op, target, fin, env) ==
    IF target = name
    THEN Call(r, op, env, PatchStatus(r.tunnel, fin),
              [r EXCEPT !.tunnel = PatchedFinalizers(@, fin), !.written = TRUE])
    ELSE Call(r, op, env, PatchStatus(r.other, fin),
              [r EXCEPT !.other = PatchedFinalizers(@, fin)])

---------------------------------------------------------------------------
(* crates/tunnel-controller: the reconciler and the Tunnel methods it calls *)

\* TunnelActionFrom with the Delete and Create arms exchanged
TunnelActionSwapped(s) ==
    IF s.deletion_timestamp THEN "Create"
    ELSE IF ~s.finalizers.some THEN "Delete"
    ELSE "Sync"

\* impl From<&Arc<Tunnel>> for TunnelAction
TunnelActionFrom(s) ==
    IF s.deletion_timestamp THEN "Delete"
    ELSE IF ~s.finalizers.some THEN "Create"
    ELSE "Sync"

\* get_credentials that goes on without the Credentials object
get_credentials_lenient(r, env) ==
    Let(get_opt_credentials(r, env), LAMBDA c :
        IF ~c.ok /\ c.code # 404 THEN Return(c, Err("KubeError")) ELSE c)

\* CredentialsApiExt::get_credentials, followed by `?`
get_credentials(r, env) ==
    Let(get_opt_credentials(r, env), LAMBDA c :
        IF c.code = 404 THEN Return(c, Err("MissingCredentials"))
        ELSE IF ~c.ok THEN Return(c, Err("KubeError"))
        ELSE c)

\* create_resources that leaves the Secret out
create_resources_deployment_only(r, env) == api_create_deployment(r, env)

\* Tunnel::create_resources: the Deployment, then the Secret
create_resources(r, env) ==
    Let(api_create_deployment(r, env), LAMBDA d :
        IF ~d.ok THEN d ELSE api_create_secret(d, env))

\* `metadata.namespace.clone().unwrap()`
unwrap_namespace(gen, r) == IF gen.namespace = Absent THEN Panic(r) ELSE r

\* Tunnel::delete_resources: both requests go to Api<Secret>
delete_resources(gen, r, env) ==
    Let(unwrap_namespace(gen, r), LAMBDA n :
    Let(api_delete_secret(n, env), LAMBDA d :
        IF ~d.ok THEN d ELSE api_delete_secret(d, env)))

\* Tunnel::add_finalizer: patches the object self.name_any()
add_finalizer(r, env) ==
    patch_finalizers(r, "addFinalizer", name, Some({FINALIZER_NAME}), env)

\* Tunnel::remove_finalizer: the name it patches is metadata.namespace
remove_finalizer(r, env) ==
    patch_finalizers(r, "removeFinalizer", Namespace, None, env)

\* the owned resources of the tunnel now exist because a reconcile made them
Provisioned(r) == IF r.done \/ ~r.ok THEN r ELSE [r EXCEPT !.resourcesCreated = TRUE]

\* DeleteFailureIgnored that lets every failure of the remote delete pass
DeleteFailureIgnoredAlways(code) == TRUE

\* whether a failed remote delete is ignored: ApiFailure::Error with
\* StatusCode::NOT_FOUND or StatusCode::FORBIDDEN
DeleteFailureIgnored(code) == code \in {404, 403}

\* NeedsRemoteCreate that does not look at spec.uuid
NeedsRemoteCreateAlways(gen) == TRUE

\* whether create_tunnel asks the remote side for a new tunnel
\* (`match generator.spec.uuid`, arm None)
NeedsRemoteCreate(gen) == gen.uuid = 0

\* ResourcesFailed that drops the error of create_resources
ResourcesFailedNever(r) == FALSE

\* whether create_tunnel returns the error of create_resources
ResourcesFailed(r) == ~r.ok

\* get_or_create that goes on after the remoteId patch instead of returning
get_or_create_continues(gen, r, env) ==
    IF ~NeedsRemoteCreate(gen)
    THEN Let(cf_get_tunnel(r, gen.uuid, env), LAMBDA g :
             IF g.ok THEN g ELSE Return(g, Err("CloudflareApiFailure")))
    ELSE Let(cf_create_tunnel(r, env), LAMBDA c :
             IF ~c.ok THEN Return(c, Err("CloudflareApiFailure"))
             ELSE Let(patch_uuid(c, gen, c.id, env), LAMBDA p :
                      IF p.ok THEN p ELSE Return(p, Err("KubeError"))))

\* `match generator.spec.uuid`: the remote tunnel of the object, fetched or made
get_or_create(gen, r, env) ==
    IF ~NeedsRemoteCreate(gen)
    THEN Let(cf_get_tunnel(r, gen.uuid, env), LAMBDA g :
             IF g.ok THEN g ELSE Return(g, Err("CloudflareApiFailure")))
    ELSE Let(cf_create_tunnel(r, env), LAMBDA c :
             IF ~c.ok THEN Return(c, Err("CloudflareApiFailure"))
             ELSE Let(patch_uuid(c, gen, c.id, env), LAMBDA p :
                      IF p.ok THEN Return(p, Requeue(0))
                      ELSE Return(p, Err("KubeError"))))

create_tunnel(gen, r0, env) ==
    Let(unwrap_namespace(gen, r0), LAMBDA rn :
    Let(get_credentials(rn, env), LAMBDA r1 :
    Let(get_or_create(gen, r1, env), LAMBDA r2 :
    Let(cf_get_tunnel_token(r2, r2.id, env), LAMBDA t :
    Let(IF t.ok THEN t ELSE Return(t, Err("CloudflareApiFailure")), LAMBDA r3 :
    Let(create_resources(r3, env), LAMBDA c :
    Let(IF ResourcesFailed(c) THEN Return(c, Err("KubeError")) ELSE Provisioned(c), LAMBDA r4 :
    Let(add_finalizer(r4, env), LAMBDA r5 :
        IF r5.ok THEN Return(r5, Requeue(RECONCILE_TIMER))
        ELSE Return(r5, Err("KubeError"))
    ))))))))

\* `if let Some(uuid) = generator.get_uuid()`: the remote tunnel is deleted
delete_remote(gen, r, env) ==
    IF gen.uuid # 0
    THEN Let(get_credentials(r, env), LAMBDA c :
         Let(cf_delete_tunnel(c, gen.uuid, env), LAMBDA d :
             IF d.ok \/ DeleteFailureIgnored(d.code) THEN d
             ELSE Return(d, Err("CloudflareApiFailure"))))
    ELSE r

delete_tunnel(gen, r0, env) ==
    Let(delete_remote(gen, r0, env), LAMBDA r1 :
    Let(delete_resources(gen, r1, env), LAMBDA d :
    Let(IF ~d.ok THEN Return(d, Err("KubeError")) ELSE d, LAMBDA r2 :
    Let(remove_finalizer(r2, env), LAMBDA r3 :
        IF r3.ok THEN Return(r3, AwaitChange) ELSE Return(r3, Err("KubeError"))
    ))))

\* reconciler whose Sync arm asks the remote side for the tunnel
reconciler_sync_fetches(gen, r0, env) ==
    LET action == TunnelActionFrom(gen)
    IN  IF action = "Create" THEN create_tunnel(gen, r0, env)
        ELSE IF action = "Delete" THEN delete_tunnel(gen, r0, env)
        ELSE Return(cf_get_tunnel(r0, gen.uuid, env), Requeue(RECONCILE_TIMER))

reconciler(gen, r0, env) ==
    LET action == TunnelActionFrom(gen)
    IN  IF action = "Create" THEN create_tunnel(gen, r0, env)
        ELSE IF action = "Delete" THEN delete_tunnel(gen, r0, env)
        ELSE Return(r0, Requeue(RECONCILE_TIMER))

\* on_err that requeues every error after the steady-state interval
on_err_uniform(error) == Requeue(RECONCILE_TIMER)

\* the errors a reconcile can end with
Errors == {"KubeError", "CloudflareApiFailure", "MissingNamespace", "MissingCredentials"}

\* the Action the controller takes for a failed reconcile
on_err(error) ==
    IF error = "MissingCredentials" THEN Requeue(MISSING_CREDENTIALS_REQUEUE)
    ELSE AwaitChange

---------------------------------------------------------------------------
(* src/operator: the earlier reconciler, with free functions for the owned  *)
(* resources and the finalizer                                              *)

\* operator::resources::deployment::delete: API errors 400..=403 are Ok(())
deployment_delete(r, env) ==
    Let(api_delete_deployment(r, env), LAMBDA d :
        IF ~d.done /\ ~d.ok /\ d.code >= 400 /\ d.code <= 403
        THEN [d EXCEPT !.ok = TRUE]
        ELSE d)

\* resources::secret::delete
secret_delete(r, env) == api_delete_secret(r, env)

\* resources::secret::create
secret_create(r, env) == api_create_secret(r, env)

\* operator::resources::deployment::create
deployment_create(r, env) == api_create_deployment(r, env)

\* operator::crd::tunnel::add_finalizer(name, namespace, ..)
operator_add_finalizer(r, env) ==
    patch_finalizers(r, "addFinalizer", name, Some({FINALIZER_NAME}), env)

\* operator::crd::tunnel::remove_finalizer(name, namespace, ..)
operator_remove_finalizer(r, env) ==
    patch_finalizers(r, "removeFinalizer", name, None, env)

\* `match ctx.credentials_api.get_opt(..)` of create_tunnel
operator_credentials(r, env) ==
    Let(get_opt_credentials(r, env), LAMBDA c :
        IF c.code = 404 THEN Return(c, Err("MissingCredentials"))
        ELSE IF ~c.ok THEN Return(c, Err("KubeError"))
        ELSE c)

\* `match generator.spec.uuid`: after a successful patch the function goes on
operator_get_or_create(gen, r, env) ==
    IF gen.uuid # 0
    THEN Let(cf_get_tunnel(r, gen.uuid, env), LAMBDA g :
             IF g.ok THEN g ELSE Return(g, Err("CloudflareApiFailure")))
    ELSE Let(cf_create_tunnel(r, env), LAMBDA c :
             IF ~c.ok THEN Return(c, Err("CloudflareApiFailure"))
             ELSE Let(patch_uuid(c, gen, c.id, env), LAMBDA p :
                      IF p.ok THEN p ELSE Return(p, Err("KubeError"))))

operator_create_tunnel(gen, r0, env) ==
    Let(operator_credentials(r0, env), LAMBDA r1 :
    Let(operator_get_or_create(gen, r1, env), LAMBDA r2 :
    Let(cf_get_tunnel_token(r2, r2.id, env), LAMBDA t :
    Let(IF t.ok THEN t ELSE Return(t, Err("CloudflareApiFailure")), LAMBDA r3 :
    Let(secret_create(r3, env), LAMBDA s :
    Let(IF ~s.ok THEN Return(s, Err("KubeError")) ELSE s, LAMBDA r4 :
    Let(deployment_create(r4, env), LAMBDA d :
    Let(IF ~d.ok THEN Return(d, Err("KubeError")) ELSE Provisioned(d), LAMBDA r5 :
    Let(operator_add_finalizer(r5, env), LAMBDA r6 :
        IF r6.ok THEN Return(r6, Requeue(RECONCILE_TIMER))
        ELSE Return(r6, Err("KubeError"))
    )))))))))

\* `if let Some(uuid) = generator.spec.uuid`: without the Credentials object
\* the remote delete is left out
operator_delete_remote(gen, r, env) ==
    IF gen.uuid # 0
    THEN Let(get_opt_credentials(r, env), LAMBDA c :
             IF c.code = 404 THEN c
             ELSE IF ~c.ok THEN Return(c, Err("KubeError"))
             ELSE Let(cf_delete_tunnel(c, gen.uuid, env), LAMBDA d :
                      IF d.ok \/ DeleteFailureIgnored(d.code) THEN d
                      ELSE Return(d, Err("CloudflareApiFailure"))))
    ELSE r

operator_delete_tunnel(gen, r0, env) ==
    Let(operator_delete_remote(gen, r0, env), LAMBDA r1 :
    Let(deployment_delete(r1, env), LAMBDA d :
    Let(IF ~d.ok THEN Return(d, Err("KubeError")) ELSE d, LAMBDA r2 :
    Let(secret_delete(r2, env), LAMBDA s :
    Let(IF ~s.ok THEN Return(s, Err("KubeError")) ELSE s, LAMBDA r3 :
    Let(operator_remove_finalizer(r3, env), LAMBDA r4 :
        IF r4.ok THEN Return(r4, AwaitChange) ELSE Return(r4, Err("KubeError"))
    ))))))

operator_reconciler(gen, r0, env) ==
    LET action == TunnelActionFrom(gen)
    IN  IF gen.namespace = Absent THEN Return(r0, Err("MissingNamespace"))
        ELSE IF action = "Create" THEN operator_create_tunnel(gen, r0, env)
        ELSE IF action = "Delete" THEN operator_delete_tunnel(gen, r0, env)
        ELSE Return(r0, Requeue(RECONCILE_TIMER))

\* no reconcile has just ended
NoLast == [action |-> "none", gen |-> NoObject, calls |-> <<>>, res |-> NotRun]

---------------------------------------------------------------------------
(* crates/cloudflarext: what the client makes of a response of the remote   *)
(* API.  Under ResponseSpec responses of every status and body are mapped.  *)

\* status codes of the responses
StatusCodes == {100, 199, 200, 201, 204, 299, 300, 301, 400, 401, 403, 404, 409, 429, 500, 502, 503}

\* codes of the entries of an error list
ErrorCodes == {1003, 7003}

\* a body is what resp.json() makes of it for each of the two target types:
\* ApiSuccess<ResultType> (Absent: does not parse) and ApiErrors
Bodies ==
    [as_success : {Absent, Present("result")},
     as_errors : {Absent, Present(<<>>)} \cup {Present(<<e>>) : e \in ErrorCodes}
                 \cup {Present(<<1003, 7003>>)}]

Responses == [status : StatusCodes, body : Bodies]

\* ApiResponse<ResultType>: Ok(ApiSuccess), Err(ApiFailure::Invalid),
\* Err(ApiFailure::Error(status, errors))
ApiSuccess(result) == [kind |-> "Success", result |-> result, status |-> 0, errors |-> <<>>]

ApiFailureInvalid == [kind |-> "Invalid", result |-> "none", status |-> 0, errors |-> <<>>]

ApiFailureError(status, errors) ==
    [kind |-> "Error", result |-> "none", status |-> status, errors |-> errors]

NotMapped == [kind |-> "none", result |-> "none", status |-> 0, errors |-> <<>>]

\* map_api_response that takes a failure body it cannot parse for Invalid
map_api_response_strict(resp) ==
    IF IsSuccess(resp.status)
    THEN IF resp.body.as_success # Absent
         THEN ApiSuccess(Unwrap(resp.body.as_success))
         ELSE ApiFailureInvalid
    ELSE IF resp.body.as_errors # Absent
         THEN ApiFailureError(resp.status, Unwrap(resp.body.as_errors))
         ELSE ApiFailureInvalid

\* map_api_response: status.is_success() is 200..=299; unwrap_or_default of
\* the parsed ApiErrors is the empty list
map_api_response(resp) ==
    IF IsSuccess(resp.status)
    THEN IF resp.body.as_success # Absent
         THEN ApiSuccess(Unwrap(resp.body.as_success))
         ELSE ApiFailureInvalid
    ELSE ApiFailureError(resp.status, UnwrapOr(resp.body.as_errors, <<>>))

\* no request has been sent
NoResponse == [status |-> 200, body |-> [as_success |-> Absent, as_errors |-> Absent]]

ResponseIdle ==
    /\ response = NoResponse
    /\ mapped = NotMapped

---------------------------------------------------------------------------
(* crates/ingress-controller: the ingress engine.  It resolves an Ingress  *)
(* to a tunnel through its IngressClass and the tunnel store.  Under       *)
(* IngressSpec the stores change and the tunnel reconciler does not run.   *)

INGRESS_CONTROLLER == "cloudflare.ar2ro.io/ingress-controller"

OtherController == "example.com/ingress-controller"

DEFAULT_ANNOTATION == "cloudflare.ar2ro.io/default-tunnel"

\* group, kind and scope of Tunnel::crd().spec
CrdGroup == "cloudflare.ar2ro.io"

CrdKind == "Tunnel"

CrdScope == "Namespaced"

ClassNames == {"c1"}

TunnelNames == {"t1", "t2", "t3"}

\* spec.uuid of the tunnels of the store: t2 has not got its remote tunnel yet
StoredUuid == [n \in TunnelNames |-> IF n = "t2" THEN 0 ELSE 1]

\* strings are sequences of characters
Str_true == <<"t", "r", "u", "e">>

Str_TRUE == <<"T", "R", "U", "E">>

Str_True == <<"T", "r", "u", "e">>

Str_false == <<"f", "a", "l", "s", "e">>

\* values the default annotation is given
AnnotationValues == {Str_true, Str_TRUE, Str_True, Str_false}

\* char::to_lowercase on the letters in use
LowerOf == [c \in {"T", "R", "U", "E", "F", "A", "L", "S"} |->
              CASE c = "T" -> "t" [] c = "R" -> "r" [] c = "U" -> "u" [] c = "E" -> "e"
                [] c = "F" -> "f" [] c = "A" -> "a" [] c = "L" -> "l" [] c = "S" -> "s"]

\* to_lowercase that leaves the string as it is
to_lowercase_identity(v) == v

\* str::to_lowercase
to_lowercase(v) == [i \in 1 .. Len(v) |-> IF v[i] \in DOMAIN LowerOf THEN LowerOf[v[i]] ELSE v[i]]

\* a Tunnel of the store: metadata.annotations[DEFAULT_ANNOTATION] and spec.uuid
NoStoredTunnel == [exists |-> FALSE, annotation |-> Absent, uuid |-> 0]

StoredTunnel(n, a) == [exists |-> TRUE, annotation |-> a, uuid |-> StoredUuid[n]]

StoredTunnels(n) ==
    {NoStoredTunnel} \cup {StoredTunnel(n, a) : a \in {Absent} \cup {Present(v) : v \in AnnotationValues}}

\* IngressClassParametersReference
Parameters(api_group, kind, scope, namespace, pname) ==
    [api_group |-> api_group, kind |-> kind, scope |-> scope, namespace |-> namespace,
     name |-> pname]

ParameterValues ==
    { Parameters(Present(CrdGroup), CrdKind, Present("Namespace"), Present(Namespace), "t1"),
      Parameters(Present(CrdGroup), CrdKind, Present("Namespace"), Absent, "t1"),
      Parameters(Present(CrdGroup), CrdKind, Present("Cluster"), Absent, "t2"),
      Parameters(Present(CrdGroup), CrdKind, Present("Cluster"), Present(Namespace), "t1"),
      Parameters(Absent, CrdKind, Absent, Absent, "t1"),
      Parameters(Present(CrdGroup), "ConfigMap", Present("Namespace"), Present(Namespace), "t1") }

\* an IngressClass: spec (Option), spec.controller (Option), spec.parameters (Option)
NoIngressClass == [exists |-> FALSE, spec |-> FALSE, controller |-> Absent, parameters |-> Absent]

IngressClassOf(controller, parameters) ==
    [exists |-> TRUE, spec |-> TRUE, controller |-> controller, parameters |-> parameters]

IngressClasses ==
    {NoIngressClass}
    \cup {[exists |-> TRUE, spec |-> FALSE, controller |-> Absent, parameters |-> Absent]}
    \cup {IngressClassOf(c, ps) :
            c \in {Absent, Present(INGRESS_CONTROLLER), Present(OtherController)},
            ps \in {Absent} \cup {Present(q) : q \in ParameterValues}}

NoIngress == [exists |-> FALSE, class_name |-> Absent]

\* the process dies in the reconcile: Option::unwrap on None
Panicked == [kind |-> "Panicked", secs |-> 0, err |-> "none"]

\* what one ingress reconcile came to: its result, the tunnel it resolved
\* the Ingress to, and the lookups it made
Outcome(res, t, steps) == [res |-> res, tunnel |-> t, steps |-> steps]

\* IngressExt::ingress_class_name
ingress_class_name(ing) == ing.class_name

\* IngressClassExt::controller_name
controller_name(cls) == IF cls.spec THEN cls.controller ELSE Absent

\* StoreIngressClassExt::ingress_class_names
ingress_class_names(class_store) ==
    {c \in DOMAIN class_store :
        /\ class_store[c].exists
        /\ controller_name(class_store[c]) = Present(INGRESS_CONTROLLER)}

\* whether the annotation value marks the tunnel as default
IsDefault(t) ==
    /\ t.annotation # Absent
    /\ to_lowercase(Unwrap(t.annotation)) = Str_true

\* TunnelStoreExt::default_tunnel: the name of the tunnel, or Absent
default_tunnel(tstore) ==
    LET tunnels == {n \in DOMAIN tstore : tstore[n].exists /\ IsDefault(tstore[n])}
    IN  IF Cardinality(tunnels) = 1 THEN Present(CHOOSE n \in tunnels : TRUE) ELSE Absent

\* ctx.tunnel_store.get(&objectref): the tunnels of the store are namespaced,
\* their keys carry Some(namespace)
tunnel_store_get(tstore, pname, namespace) ==
    IF /\ namespace = Present(Namespace)
       /\ pname \in DOMAIN tstore
       /\ tstore[pname].exists
    THEN Present(pname)
    ELSE Absent

\* the lookups of the class store and the tunnel store a reconcile can make
StoreReads == {"classLookup", "parameters", "tunnelLookup", "defaultLookup"}

\* ingress_bound that writes the resolved tunnel to the Ingress
ingress_bound_writes(tstore, n, steps) ==
    Outcome(Requeue(60), n, steps \cup {"patchIngress"})

\* `match tunnel_crd.get_uuid()`
ingress_bound(tstore, n, steps) ==
    IF tstore[n].uuid = 0 THEN Outcome(Requeue(60 * 2), n, steps)
    ELSE Outcome(Requeue(60), n, steps)

\* `Some(parameters) => ..`
by_parameters(tstore, ps) ==
    LET scope == UnwrapOr(ps.scope, "Cluster")
        api_group == UnwrapOr(ps.api_group, "cloudfare.ar2ro.io")
    IN  IF CrdGroup = api_group /\ CrdKind = ps.kind /\ CrdScope = scope
        THEN LET namespace == IF "Namespace" = scope THEN ps.namespace ELSE Absent
                 found == tunnel_store_get(tstore, ps.name, namespace)
             IN  IF found # Absent
                 THEN ingress_bound(tstore, Unwrap(found), {"classLookup", "parameters", "tunnelLookup"})
                 ELSE Outcome(Err("MissingTunnel"), "none", {"classLookup", "parameters", "tunnelLookup"})
        ELSE Outcome(Err("InvalidIngressClassParameters"), "none", {"classLookup", "parameters"})

\* `None => match ctx.tunnel_store.default_tunnel()`
by_default(tstore) ==
    LET found == default_tunnel(tstore)
    IN  IF found # Absent
        THEN ingress_bound(tstore, Unwrap(found), {"classLookup", "defaultLookup"})
        ELSE Outcome(Err("MissingDefaultTunnel"), "none", {"classLookup", "defaultLookup"})

\* reconcile(ingress, ctx)
reconcile(ing, class_store, tstore) ==
    IF ingress_class_name(ing) = Absent THEN Outcome(AwaitChange, "none", {})
    ELSE LET cname == Unwrap(ingress_class_name(ing))
         IN  IF cname \notin DOMAIN class_store \/ ~class_store[cname].exists
             THEN Outcome(AwaitChange, "none", {"classLookup"})
             ELSE IF ~class_store[cname].spec
             THEN Outcome(Panicked, "none", {"classLookup"})
             ELSE IF class_store[cname].parameters # Absent
             THEN by_parameters(tstore, Unwrap(class_store[cname].parameters))
             ELSE by_default(tstore)

\* error_policy
error_policy(error) == Requeue(60)

\* the try_filter of the Ingress stream
Admitted(ing, class_store) ==
    IF ingress_class_name(ing) = Absent THEN FALSE
    ELSE Unwrap(ingress_class_name(ing)) \in ingress_class_names(class_store)

NoIngressLast ==
    [kind |-> "none", ingress |-> NoIngress, class |-> NoIngressClass,
     out |-> Outcome(NotRun, "none", {}), admitted |-> FALSE]

\* the ingress engine before any object is applied
IngressIdle ==
    /\ ingress = NoIngress
    /\ ingress_class_store = [c \in ClassNames |-> NoIngressClass]
    /\ tunnel_store = [n \in TunnelNames |-> NoStoredTunnel]
    /\ ingress_queued = FALSE
    /\ ingress_requeue = AwaitChange
    /\ ingress_last = NoIngressLast
    /\ class_store_ready = FALSE
    /\ tunnel_store_ready = FALSE
    /\ ingress_start = "wait_until_ready"

\* the tunnel controller with no tunnel object to reconcile
TunnelIdle ==
    /\ build = "crate"
    /\ name = "t1"
    /\ tunnel = NoObject
    /\ other = NoObject
    /\ store = NoObject
    /\ storeBehind = FALSE
    /\ secret = FALSE
    /\ deployment = FALSE
    /\ credentials = TRUE
    /\ remote = {}
    /\ created = 0
    /\ resourcesCreated = FALSE
    /\ queued = FALSE
    /\ requeue = AwaitChange
    /\ up = TRUE
    /\ last = NoLast

IngressInit == TunnelIdle /\ IngressIdle /\ ResponseIdle

\* the class of the Ingress as the class store has it
ClassSeen(ing, class_store) ==
    IF ingress_class_name(ing) = Absent \/ Unwrap(ingress_class_name(ing)) \notin DOMAIN class_store
    THEN NoIngressClass
    ELSE class_store[Unwrap(ingress_class_name(ing))]

\* ReadyBarrier that lets start go on at once
ReadyBarrierNone(ready) == TRUE

\* `ingress_class_store.wait_until_ready().await?`: start goes on when the
\* class store has taken its initial list
ReadyBarrier(ready) == ready

\* the class watcher task, spawned before the barrier, lists the classes of
\* the cluster and the class store takes them
ClassRelist ==
    /\ ~class_store_ready
    /\ ingress_class_store' \in [ClassNames -> IngressClasses]
    /\ class_store_ready' = TRUE
    /\ ingress_last' = NoIngressLast
    /\ UNCHANGED <<ingress, tunnel_store, ingress_queued, ingress_requeue, ingress_start,
                   tunnel_store_ready>>
    /\ UNCHANGED <<tunnelVars, responseVars>>

\* start passes the barrier, builds the context and runs the Controller, which
\* is what polls the filtered Ingress stream
ControllerRun ==
    /\ ingress_start = "wait_until_ready"
    /\ ReadyBarrier(class_store_ready)
    /\ ingress_start' = "run"
    /\ ingress_last' = NoIngressLast
    /\ UNCHANGED <<ingress, ingress_class_store, tunnel_store, ingress_queued, ingress_requeue,
                   class_store_ready, tunnel_store_ready>>
    /\ UNCHANGED <<tunnelVars, responseVars>>

\* the Ingress watcher delivers an applied or modified Ingress: the store
\* takes it, and the key is queued when the event passes the filter
IngressEvent ==
    /\ ingress_start = "run"
    /\ \E c \in {Absent} \cup {Present(n) : n \in ClassNames} :
           ingress' = [exists |-> TRUE, class_name |-> c]
    /\ ingress_queued' = (ingress_queued \/ Admitted(ingress', ingress_class_store))
    /\ ingress_last' = [NoIngressLast EXCEPT !.kind = "event", !.ingress = ingress',
                            !.class = ClassSeen(ingress', ingress_class_store),
                            !.admitted = Admitted(ingress', ingress_class_store)]
    /\ UNCHANGED <<ingress_class_store, tunnel_store, ingress_requeue, class_store_ready,
                   ingress_start, tunnel_store_ready>>
    /\ UNCHANGED <<tunnelVars, responseVars>>

\* Controller::run takes the key, reads the Ingress from the store and runs
\* reconcile on it
IngressReconcile ==
    /\ ingress_queued /\ ingress.exists
    /\ \E out \in {reconcile(ingress, ingress_class_store, tunnel_store)} :
           /\ ingress_last' = [kind |-> "reconcile", ingress |-> ingress,
                               class |-> ClassSeen(ingress, ingress_class_store),
                               out |-> out, admitted |-> TRUE]
           /\ ingress_requeue' = IF out.res.kind = "Err" THEN error_policy(out.res.err)
                                 ELSE IF out.res.kind = "Panicked" THEN AwaitChange
                                 ELSE out.res
    /\ ingress_queued' = FALSE
    /\ UNCHANGED <<ingress, ingress_class_store, tunnel_store, class_store_ready,
                   ingress_start, tunnel_store_ready>>
    /\ UNCHANGED <<tunnelVars, responseVars>>

\* the delay of the requeue Action of the Ingress is over
IngressTimerFire ==
    /\ ingress_requeue.kind = "Requeue"
    /\ ingress_queued' = TRUE
    /\ ingress_requeue' = AwaitChange
    /\ ingress_last' = NoIngressLast
    /\ UNCHANGED <<ingress, ingress_class_store, tunnel_store, class_store_ready,
                   ingress_start, tunnel_store_ready>>
    /\ UNCHANGED <<tunnelVars, responseVars>>

\* an IngressClass is applied, changed or deleted and the class watcher puts
\* it into the class store; no Ingress is owned by a class, so the `owns`
\* relation queues nothing
ClassChange ==
    /\ class_store_ready
    /\ \E c \in ClassNames : \E cls \in IngressClasses \ {ingress_class_store[c]} :
           ingress_class_store' = [ingress_class_store EXCEPT ![c] = cls]
    /\ ingress_last' = NoIngressLast
    /\ UNCHANGED <<ingress, tunnel_store, ingress_queued, ingress_requeue, class_store_ready,
                   ingress_start, tunnel_store_ready>>
    /\ UNCHANGED <<tunnelVars, responseVars>>

\* the tunnels of the cluster, each with or without the default annotation
TunnelLists ==
    {f \in [TunnelNames -> UNION {StoredTunnels(n) : n \in TunnelNames}] :
        \A n \in TunnelNames : f[n] \in StoredTunnels(n)}

\* the reflector of the tunnel controller, which its Controller drives once
\* TunnelController::start runs, lists the tunnels of the cluster and the
\* tunnel store takes them; IngressController::start does not wait for it
TunnelRelist ==
    /\ ~tunnel_store_ready
    /\ tunnel_store' \in TunnelLists
    /\ tunnel_store_ready' = TRUE
    /\ ingress_last' = NoIngressLast
    /\ UNCHANGED <<ingress, ingress_class_store, ingress_queued, ingress_requeue,
                   class_store_ready, ingress_start>>
    /\ UNCHANGED <<tunnelVars, responseVars>>

\* a Tunnel is applied, annotated or deleted and the tunnel watcher puts it
\* into the tunnel store
TunnelStoreChange ==
    /\ tunnel_store_ready
    /\ \E n \in TunnelNames : \E t \in StoredTunnels(n) \ {tunnel_store[n]} :
           tunnel_store' = [tunnel_store EXCEPT ![n] = t]
    /\ ingress_last' = NoIngressLast
    /\ UNCHANGED <<ingress, ingress_class_store, ingress_queued, ingress_requeue,
                   class_store_ready, ingress_start, tunnel_store_ready>>
    /\ UNCHANGED <<tunnelVars, responseVars>>

IngressNext ==
    \/ ClassRelist
    \/ ControllerRun
    \/ IngressEvent
    \/ IngressReconcile
    \/ IngressTimerFire
    \/ ClassChange
    \/ TunnelRelist
    \/ TunnelStoreChange

IngressSpec == IngressInit /\ [][IngressNext]_vars

\* the ingress engine with its scheduling: the spawned class watcher takes its
\* list, start goes on past the barrier, the Controller runs a queued key and
\* a requeue delay runs out
IngressLive ==
    /\ IngressSpec
    /\ WF_vars(ClassRelist)
    /\ WF_vars(ControllerRun)
    /\ WF_vars(IngressReconcile)
    /\ WF_vars(IngressTimerFire)

---------------------------------------------------------------------------
(* The client of the remote API at work: request sends, map_api_response    *)
(* maps what came back.                                                     *)

ResponseInit ==
    /\ TunnelIdle
    /\ IngressIdle
    /\ response \in Responses
    /\ mapped = NotMapped

\* `map_api_response(response).await` of AuthlessClient::request
MapApiResponse ==
    /\ mapped = NotMapped
    /\ mapped' = map_api_response(response)
    /\ UNCHANGED response
    /\ UNCHANGED <<tunnelVars, ingressVars>>

\* the next request is sent and answered
SendRequest ==
    /\ mapped # NotMapped
    /\ response' \in Responses
    /\ mapped' = NotMapped
    /\ UNCHANGED <<tunnelVars, ingressVars>>

ResponseNext ==
    \/ MapApiResponse
    \/ SendRequest

ResponseSpec == ResponseInit /\ [][ResponseNext]_vars

---------------------------------------------------------------------------
(* The tunnel controller and its surroundings.  Under Spec the ingress      *)
(* engine has nothing to work on.                                           *)

\* a tunnel object named like the namespace, made by someone else
Bystander ==
    [exists |-> TRUE, namespace |-> Present(Namespace), uuid |-> 0, replicas |-> DefaultReplicas,
     finalizers |-> Some({FINALIZER_NAME}), deletion_timestamp |-> FALSE]

\* the controller starts on the newly applied object t
InitOn(t) ==
    /\ build \in Builds
    /\ name \in Names
    /\ tunnel = t
    /\ other \in (IF name = Namespace THEN {NoObject} ELSE {NoObject, Bystander})
    /\ store = t
    /\ storeBehind = FALSE
    /\ secret = FALSE
    /\ deployment = FALSE
    /\ credentials \in BOOLEAN
    /\ remote = {}
    /\ created = 0
    /\ resourcesCreated = FALSE
    /\ queued = TRUE
    /\ requeue = AwaitChange
    /\ up = TRUE
    /\ last = NoLast
    /\ IngressIdle
    /\ ResponseIdle

\* the Tunnel resource is namespaced: every object has its namespace
Init == InitOn(NewTunnel)

\* the run of the linked reconciler on revision gen under env
Run(gen, env) ==
    LET r0 == [tunnel |-> tunnel, other |-> other, secret |-> secret,
               deployment |-> deployment, remote |-> remote, created |-> created,
               resourcesCreated |-> resourcesCreated, written |-> storeBehind,
               calls |-> <<>>, code |-> 0, ok |-> TRUE, id |-> 0,
               done |-> FALSE, res |-> NotRun]
    IN  IF build = "crate" THEN reconciler(gen, r0, env)
        ELSE operator_reconciler(gen, r0, env)

\* what the controller schedules for the key after a reconcile
Scheduled(res) == IF res.kind = "Err" THEN on_err(res.err) ELSE res

\* Controller::run takes the key from the queue, reads the object from the
\* store and runs the reconciler on it to its end
Reconcile ==
    /\ up /\ queued /\ store.exists
    /\ \E env \in Envs :
         \E r \in {Run(store, env)} :
             /\ tunnel' = r.tunnel
             /\ other' = r.other
             /\ secret' = r.secret
             /\ deployment' = r.deployment
             /\ remote' = r.remote
             /\ created' = r.created
             /\ resourcesCreated' = r.resourcesCreated
             /\ storeBehind' = r.written
             /\ last' = [action |-> TunnelActionFrom(store), gen |-> store,
                         calls |-> r.calls, res |-> r.res]
             /\ queued' = FALSE
             /\ up' = (r.res.kind # "Crashed")
             /\ requeue' = IF r.res.kind = "Crashed" THEN AwaitChange ELSE Scheduled(r.res)
    /\ UNCHANGED <<build, name, store, credentials>>
    /\ UNCHANGED <<ingressVars, responseVars>>

\* the watch delivers the newer revision: the store takes it and the key is queued
WatchEvent ==
    /\ up /\ storeBehind
    /\ store' = tunnel
    /\ storeBehind' = FALSE
    /\ queued' = tunnel.exists
    /\ last' = NoLast
    /\ UNCHANGED <<build, name, tunnel, other, secret, deployment, credentials, remote,
                   created, resourcesCreated, requeue, up>>
    /\ UNCHANGED <<ingressVars, responseVars>>

\* the delay of a requeue Action is over
TimerFire ==
    /\ up /\ requeue.kind = "Requeue"
    /\ queued' = TRUE
    /\ requeue' = AwaitChange
    /\ last' = NoLast
    /\ UNCHANGED <<build, name, tunnel, other, store, storeBehind, secret, deployment,
                   credentials, remote, created, resourcesCreated, up>>
    /\ UNCHANGED <<ingressVars, responseVars>>

\* the process starts again: the store is listed anew and every object queued
Restart ==
    /\ ~up
    /\ up' = TRUE
    /\ store' = tunnel
    /\ storeBehind' = FALSE
    /\ queued' = tunnel.exists
    /\ requeue' = AwaitChange
    /\ last' = NoLast
    /\ UNCHANGED <<build, name, tunnel, other, secret, deployment, credentials, remote,
                   created, resourcesCreated>>
    /\ UNCHANGED <<ingressVars, responseVars>>

\* somebody asks the API server to delete the tunnel object
UserDelete ==
    /\ tunnel.exists /\ ~tunnel.deletion_timestamp
    /\ tunnel' = Collected([tunnel EXCEPT !.deletion_timestamp = TRUE])
    /\ storeBehind' = TRUE
    /\ last' = NoLast
    /\ UNCHANGED <<build, name, other, store, secret, deployment, credentials, remote,
                   created, resourcesCreated, queued, requeue, up>>
    /\ UNCHANGED <<ingressVars, responseVars>>

\* another actor puts its finalizer on the tunnel object
ForeignFinalizer ==
    /\ tunnel.exists /\ ~tunnel.deletion_timestamp
    /\ OtherFinalizer \notin tunnel.finalizers.items
    /\ tunnel' = [tunnel EXCEPT !.finalizers = Some(@.items \cup {OtherFinalizer})]
    /\ storeBehind' = TRUE
    /\ last' = NoLast
    /\ UNCHANGED <<build, name, other, store, secret, deployment, credentials, remote,
                   created, resourcesCreated, queued, requeue, up>>
    /\ UNCHANGED <<ingressVars, responseVars>>

\* somebody scales the tunnel: spec.replicas changes
UserEdit ==
    /\ tunnel.exists
    /\ \E n \in ReplicaValues \ {tunnel.replicas} : tunnel' = [tunnel EXCEPT !.replicas = n]
    /\ storeBehind' = TRUE
    /\ last' = NoLast
    /\ UNCHANGED <<build, name, other, store, secret, deployment, credentials, remote,
                   created, resourcesCreated, queued, requeue, up>>
    /\ UNCHANGED <<ingressVars, responseVars>>

\* the Credentials object is applied or deleted
CredentialsChange ==
    /\ credentials' = ~credentials
    /\ last' = NoLast
    /\ UNCHANGED <<build, name, tunnel, other, store, storeBehind, secret, deployment,
                   remote, created, resourcesCreated, queued, requeue, up>>
    /\ UNCHANGED <<ingressVars, responseVars>>

Next ==
    \/ Reconcile
    \/ WatchEvent
    \/ TimerFire
    \/ Restart
    \/ UserDelete
    \/ ForeignFinalizer
    \/ UserEdit
    \/ CredentialsChange

Spec == Init /\ [][Next]_vars

\* the controller at work on an object without namespace
ClusterScopedSpec == InitOn(ClusterScopedTunnel) /\ [][Next]_vars

---------------------------------------------------------------------------
(* The finalizer methods at work: add_finalizer and remove_finalizer are    *)
(* called on a tunnel object whatever its finalizers are.                   *)

\* the finalizer lists a tunnel object can carry
FinalizerLists ==
    {None, Some({FINALIZER_NAME}), Some({OtherFinalizer}), Some({FINALIZER_NAME, OtherFinalizer})}

\* tunnel objects of the cluster: one whose deletion was requested carries a
\* finalizer, or it would be gone
FinalizerObjects ==
    {t \in {[NewTunnel EXCEPT !.replicas = n, !.finalizers = f, !.deletion_timestamp = d] :
                n \in ReplicaValues, f \in FinalizerLists, d \in BOOLEAN} :
        t.deletion_timestamp => t.finalizers.some}

FinalizerInit ==
    /\ build \in Builds
    /\ name \in Names
    /\ tunnel \in FinalizerObjects
    /\ other \in (IF name = Namespace THEN {NoObject} ELSE {NoObject, Bystander})
    /\ store = tunnel
    /\ storeBehind = FALSE
    /\ secret = FALSE
    /\ deployment = FALSE
    /\ credentials = TRUE
    /\ remote = {}
    /\ created = 0
    /\ resourcesCreated = FALSE
    /\ queued = FALSE
    /\ requeue = AwaitChange
    /\ up = TRUE
    /\ last = NoLast
    /\ IngressIdle
    /\ ResponseIdle

\* the call of one finalizer method of the linked build; the request may be
\* answered with a failure
MethodRun(method, env) ==
    LET r0 == [tunnel |-> tunnel, other |-> other, secret |-> secret,
               deployment |-> deployment, remote |-> remote, created |-> created,
               resourcesCreated |-> resourcesCreated, written |-> storeBehind,
               calls |-> <<>>, code |-> 0, ok |-> TRUE, id |-> 0,
               done |-> FALSE, res |-> NotRun]
    IN  IF method = "add_finalizer"
        THEN IF build = "crate" THEN add_finalizer(r0, env) ELSE operator_add_finalizer(r0, env)
        ELSE IF build = "crate" THEN remove_finalizer(r0, env)
             ELSE operator_remove_finalizer(r0, env)

\* the answers the API server can give to the one request of a method
MethodEnvs == {e \in Envs : e.how = "error" /\ e.failAt <= 1 /\ e.forbidden = {}}

AddFinalizerCall ==
    /\ tunnel.exists
    /\ \E env \in MethodEnvs :
         \E r \in {MethodRun("add_finalizer", env)} :
             /\ tunnel' = r.tunnel
             /\ other' = r.other
             /\ storeBehind' = r.written
             /\ last' = [action |-> "add_finalizer", gen |-> tunnel,
                         calls |-> r.calls, res |-> r.res]
    /\ UNCHANGED <<build, name, store, secret, deployment, credentials, remote, created,
                   resourcesCreated, queued, requeue, up>>
    /\ UNCHANGED <<ingressVars, responseVars>>

RemoveFinalizerCall ==
    /\ tunnel.exists
    /\ \E env \in MethodEnvs :
         \E r \in {MethodRun("remove_finalizer", env)} :
             /\ tunnel' = r.tunnel
             /\ other' = r.other
             /\ storeBehind' = r.written
             /\ last' = [action |-> "remove_finalizer", gen |-> tunnel,
                         calls |-> r.calls, res |-> r.res]
    /\ UNCHANGED <<build, name, store, secret, deployment, credentials, remote, created,
                   resourcesCreated, queued, requeue, up>>
    /\ UNCHANGED <<ingressVars, responseVars>>

FinalizerNext ==
    \/ AddFinalizerCall
    \/ RemoveFinalizerCall
    \/ ForeignFinalizer
    \/ UserDelete

FinalizerSpec == FinalizerInit /\ [][FinalizerNext]_vars

---------------------------------------------------------------------------
(* Reading the record of the reconcile that has just ended *)

Lifecycle(t) == FINALIZER_NAME \in t.finalizers.items

\* the positions of the calls to op in the last reconcile
Calls(op) == {i \in 1 .. Len(last.calls) : last.calls[i].op = op}

Made(op) == Calls(op) # {}

Succeeded(op) == \E i \in Calls(op) : IsSuccess(last.calls[i].code)

\* op succeeded before position j
SucceededBefore(op, j) == \E i \in Calls(op) : i < j /\ IsSuccess(last.calls[i].code)

ProvisioningOps ==
    {"createTunnel", "getTunnel", "getTunnelToken", "createSecret", "createDeployment",
     "addFinalizer"}

\* the reconcile ran to its end and every call it made answered success
AllSucceeded ==
    /\ last.res.kind \notin {"none", "Crashed"}
    /\ \A i \in 1 .. Len(last.calls) : IsSuccess(last.calls[i].code)

---------------------------------------------------------------------------
(* Claims *)

\* C1: the action of a reconcile is Delete iff the reconciled revision has a
\* deletionTimestamp, Create iff it has none and the lifecycle finalizer is
\* absent (also when other finalizers are present), Sync iff it has none and
\* the lifecycle finalizer is present.
C1_ActionDerivedFromRevision ==
    last.action # "none" =>
        /\ last.action = "Delete" <=> last.gen.deletion_timestamp
        /\ last.action = "Create" <=> ~last.gen.deletion_timestamp /\ ~Lifecycle(last.gen)
        /\ last.action = "Sync" <=> ~last.gen.deletion_timestamp /\ Lifecycle(last.gen)

\* C2: at most one remote tunnel is ever created for the object, whatever
\* fails or crashes between the remote create and the persisted patch.
C2_AtMostOneRemoteCreate == created <= 1

\* C3: a Create reconcile of a revision without remoteId never fetches a
\* token, creates an owned resource or adds the finalizer, and when its calls
\* succeed it makes exactly one createTunnel call and one remoteId patch and
\* returns a requeue with zero delay.
C3_FirstCreateStopsAfterPatch ==
    (build = "crate" /\ last.action = "Create" /\ last.gen.uuid = 0) =>
        /\ \A op \in {"getTunnelToken", "createSecret", "createDeployment", "addFinalizer"} :
               ~Made(op)
        /\ Cardinality(Calls("createTunnel")) <= 1
        /\ Cardinality(Calls("patchUuid")) <= 1
        /\ AllSucceeded =>
               /\ [i \in 1 .. Len(last.calls) |-> last.calls[i].op]
                      = <<"getCredentials", "createTunnel", "patchUuid">>
               /\ last.res = Requeue(0)
               /\ tunnel.uuid # 0
               /\ ~Lifecycle(tunnel)

C3_Witness ==
    /\ build = "crate" /\ last.action = "Create" /\ last.gen.uuid = 0
    /\ AllSucceeded /\ last.res = Requeue(0) /\ tunnel.uuid = 1

\* C4: the lifecycle finalizer is on the tunnel object only if both owned
\* resources were created for it before, and add_finalizer is only issued in
\* a reconcile whose creation of both owned resources succeeded.
C4_FinalizerOnlyAfterResources ==
    /\ (tunnel.exists /\ Lifecycle(tunnel)) => resourcesCreated
    /\ \A j \in Calls("addFinalizer") :
           SucceededBefore("createDeployment", j) /\ SucceededBefore("createSecret", j)

C4_Witness ==
    /\ tunnel.exists /\ Lifecycle(tunnel) /\ resourcesCreated
    /\ Succeeded("addFinalizer")

\* C5: in a Delete reconcile the finalizer-removal patch is issued only after
\* the remote delete (when remoteId is set) succeeded or answered 404/403 and
\* the deletion of both owned resources succeeded; when the reconcile ends in
\* an error the finalizer is still on the object.
C5_FinalizerRemovedOnlyAfterCleanup ==
    last.action = "Delete" =>
        /\ \A j \in Calls("removeFinalizer") :
               /\ last.gen.uuid # 0 =>
                      \E i \in Calls("deleteTunnel") :
                          i < j /\ (IsSuccess(last.calls[i].code)
                                    \/ last.calls[i].code \in {404, 403})
               /\ SucceededBefore("deleteDeployment", j)
               /\ SucceededBefore("deleteSecret", j)
        /\ (last.res.kind = "Err" /\ Lifecycle(last.gen)) =>
               tunnel.exists /\ Lifecycle(tunnel)

\* C6: a Delete reconcile of a tunnel with remoteId and finalizer set and
\* credentials present, whose remote delete answers 404 or 403 and whose other
\* calls meet no fault, deletes both owned resources, removes the finalizer
\* and returns await-change.
C6_DeleteCompletesWhenRemoteGone ==
    ( /\ build = "crate" /\ last.action = "Delete"
      /\ last.gen.uuid # 0 /\ Lifecycle(last.gen)
      /\ last.res.kind # "Crashed"
      /\ \E i \in Calls("deleteTunnel") : last.calls[i].code \in {404, 403}
      /\ \A i \in 1 .. Len(last.calls) : last.calls[i].code \notin {NoStatus, 500} )
    => /\ ~secret /\ ~deployment
       /\ ~(tunnel.exists /\ Lifecycle(tunnel))
       /\ last.res = AwaitChange

\* C7: a Delete reconcile that finds an owned resource already gone (the
\* delete answers 404) and meets no other failure goes on, removes the
\* finalizer and returns await-change.
C7_MissingOwnedResourceIsSuccess ==
    ( /\ last.action = "Delete" /\ Lifecycle(last.gen)
      /\ last.res.kind # "Crashed"
      /\ \E i \in Calls("deleteSecret") \cup Calls("deleteDeployment") :
             last.calls[i].code = 404
      /\ \A i \in 1 .. Len(last.calls) :
             \/ IsSuccess(last.calls[i].code)
             \/ last.calls[i].op \in {"deleteSecret", "deleteDeployment"}
                /\ last.calls[i].code = 404
             \/ last.calls[i].op = "deleteTunnel" /\ last.calls[i].code \in {404, 403} )
    => /\ Made("removeFinalizer")
       /\ last.res = AwaitChange

\* C8: once the tunnel object carries a remoteId, no step writes a different
\* value or clears it.
C8_RemoteIdImmutable ==
    [][(tunnel.exists /\ tunnel.uuid # 0 /\ tunnel'.exists) => tunnel'.uuid = tunnel.uuid]_vars

\* a second remote tunnel was made for the object and the object kept its id
C8_Witness ==
    /\ tunnel.exists /\ tunnel.uuid = 1 /\ created = 2
    /\ last.action = "Create" /\ Made("patchUuid")

\* C9: the reconcile of a revision with deletionTimestamp set makes no
\* createTunnel, getTunnel or getTunnelToken call, creates no owned resource
\* and does not add the finalizer.
C9_DeletingRevisionNeverProvisions ==
    (last.action # "none" /\ last.gen.deletion_timestamp) =>
        \A op \in ProvisioningOps : ~Made(op)

C9_Witness ==
    /\ last.gen.deletion_timestamp /\ last.gen.uuid # 0 /\ ~Lifecycle(last.gen)
    /\ Made("deleteTunnel")

\* the steps of the Create transition after the credentials lookup
CreateSteps ==
    {"getTunnel", "createTunnel", "patchUuid", "getTunnelToken", "createSecret",
     "createDeployment", "addFinalizer"}

\* C10: after a Create reconcile that failed at one of its steps, the object
\* is reconciled again without an external change: the key is queued, a
\* requeue is pending, or a change event for the object is on its way.
C10_FailedCreateIsRetried ==
    ( /\ last.action = "Create" /\ last.res.kind = "Err"
      /\ last.calls # <<>>
      /\ last.calls[Len(last.calls)].op \in CreateSteps )
    => (queued \/ requeue.kind = "Requeue" \/ storeBehind)

\* C11: a reconcile that ends with an error other than MissingCredentials
\* leaves a timed requeue pending for the object.
C11_OtherErrorsRequeue ==
    (last.res.kind = "Err" /\ last.res.err # "MissingCredentials") =>
        requeue.kind = "Requeue"

\* C12: a reconcile that ends with MissingCredentials leaves a requeue of 120
\* seconds pending, which is longer than the steady-state interval of 60
\* seconds and longer than the timed requeue of every other error.
C12_MissingCredentialsRequeue ==
    /\ last.res = Err("MissingCredentials") =>
           /\ requeue = Requeue(120)
           /\ requeue.secs > RECONCILE_TIMER
    /\ \A e \in Errors \ {"MissingCredentials"} :
           on_err(e).kind = "Requeue" => on_err(e).secs < on_err("MissingCredentials").secs

C12_Witness ==
    /\ last.res = Err("MissingCredentials") /\ requeue = Requeue(120)
    /\ queued = FALSE

\* C13: a Create reconcile that finds an owned resource already in the
\* cluster (the create answers 409) and meets no other failure adds the
\* finalizer and returns the steady-state requeue.
C13_ExistingOwnedResourceTolerated ==
    ( /\ last.action = "Create"
      /\ last.res.kind # "Crashed"
      /\ \E i \in Calls("createSecret") \cup Calls("createDeployment") :
             last.calls[i].code = 409
      /\ \A i \in 1 .. Len(last.calls) :
             \/ IsSuccess(last.calls[i].code)
             \/ last.calls[i].op \in {"createSecret", "createDeployment"}
                /\ last.calls[i].code = 409 )
    => /\ Succeeded("addFinalizer")
       /\ last.res = Requeue(RECONCILE_TIMER)

\* C14: a Create reconcile of a revision with remoteId set whose calls all
\* succeed makes one getTunnel, no createTunnel, one getTunnelToken, one
\* createSecret, one createDeployment and one addFinalizer call, leaves both
\* owned resources and the finalizer in place and returns requeue(60).
C14_SecondCreateProvisions ==
    (last.action = "Create" /\ last.gen.uuid # 0 /\ AllSucceeded) =>
        /\ \A op \in {"getTunnel", "getTunnelToken", "createSecret", "createDeployment",
                       "addFinalizer"} : Cardinality(Calls(op)) = 1
        /\ ~Made("createTunnel") /\ ~Made("patchUuid")
        /\ Len(last.calls) = 6
        /\ secret /\ deployment
        /\ tunnel.exists => Lifecycle(tunnel)
        /\ last.res = Requeue(60)

C14_Witness ==
    /\ last.action = "Create" /\ last.gen.uuid # 0 /\ AllSucceeded
    /\ last.res = Requeue(60) /\ tunnel.exists /\ Lifecycle(tunnel) /\ secret /\ deployment

\* C15: a Create reconcile whose Credentials object does not exist ends with
\* MissingCredentials after the lookup alone: no other call is made and the
\* tunnel object, the owned resources and the remote tunnels are unchanged.
C15_MissingCredentialsFirst ==
    [][ ( /\ last'.action = "Create"
          /\ last'.calls # <<>>
          /\ last'.calls[1] = [op |-> "getCredentials", code |-> 404] )
        => /\ last'.res = Err("MissingCredentials")
           /\ Len(last'.calls) = 1
           /\ UNCHANGED <<tunnel, other, secret, deployment, remote, created>> ]_vars

C15_Witness ==
    /\ last.action = "Create" /\ last.res = Err("MissingCredentials")
    /\ last.gen.uuid = 0 /\ remote = {} /\ ~credentials

\* C16: a Sync reconcile makes no call to the remote API or the cluster API,
\* changes nothing and returns requeue(60).
C16_SyncIsNoOp ==
    [][ last'.action = "Sync"
        => /\ last'.calls = <<>>
           /\ last'.res = Requeue(60)
           /\ requeue' = Requeue(60)
           /\ UNCHANGED <<tunnel, other, secret, deployment, remote, created>> ]_vars

C16_Witness ==
    /\ last.action = "Sync" /\ Lifecycle(last.gen) /\ ~last.gen.deletion_timestamp
    /\ last.res = Requeue(60)

\* C17: a reconcile whose remoteId patch succeeded leaves spec.replicas and
\* deletionTimestamp of the cluster object as they were, and the finalizers
\* too when the patch was its last call.
C17_PatchChangesOnlyRemoteId ==
    [][ (\E i \in 1 .. Len(last'.calls) :
             last'.calls[i] = [op |-> "patchUuid", code |-> 200])
        => /\ tunnel'.exists
           /\ tunnel'.replicas = tunnel.replicas
           /\ tunnel'.deletion_timestamp = tunnel.deletion_timestamp
           /\ last'.calls[Len(last'.calls)].op = "patchUuid" =>
                  tunnel' = [tunnel EXCEPT !.uuid = tunnel'.uuid] ]_vars

\* the patch went through on an object that had been scaled before
C17_Witness ==
    /\ Succeeded("patchUuid") /\ tunnel.uuid # 0 /\ tunnel.replicas # DefaultReplicas

\* C18: an ingress reconcile of an Ingress whose class is in the class store
\* with a controllerName other than this controller's resolves no tunnel and
\* goes neither to the parameters nor to a tunnel lookup.
C18_ForeignClassNeverResolved ==
    ( /\ ingress_last.kind = "reconcile"
      /\ ingress_last.class.exists
      /\ controller_name(ingress_last.class) = Present(OtherController) )
    => /\ ingress_last.out.tunnel = "none"
       /\ ingress_last.out.steps \cap {"parameters", "tunnelLookup", "defaultLookup"} = {}

\* C19: default_tunnel returns a tunnel exactly when one tunnel of the store
\* carries the default annotation with a value equal to "true" ignoring
\* case, and then that tunnel; an ingress reconcile that makes the default
\* lookup resolves to that tunnel or to none.
C19_DefaultTunnelLookup ==
    LET CasePairs == {{"t", "T"}, {"r", "R"}, {"u", "U"}, {"e", "E"}}
        SameLetter(a, b) == a = b \/ {a, b} \in CasePairs
        IsTrue(v) == Len(v) = 4 /\ \A i \in 1 .. 4 : SameLetter(v[i], Str_true[i])
        Flagged == {n \in TunnelNames :
                       /\ tunnel_store[n].exists
                       /\ tunnel_store[n].annotation # Absent
                       /\ IsTrue(Unwrap(tunnel_store[n].annotation))}
    IN  /\ default_tunnel(tunnel_store) = IF Cardinality(Flagged) = 1 THEN Flagged ELSE Absent
        /\ (ingress_last.kind = "reconcile" /\ "defaultLookup" \in ingress_last.out.steps) =>
               IF Cardinality(Flagged) = 1
               THEN Present(ingress_last.out.tunnel) = Flagged
               ELSE ingress_last.out.tunnel = "none"

\* one tunnel flagged with "TRUE" beside one flagged "false": the lookup finds it
C19_Witness ==
    /\ ingress_last.kind = "reconcile" /\ "defaultLookup" \in ingress_last.out.steps
    /\ ingress_last.out.tunnel = "t3"
    /\ tunnel_store["t3"].annotation = Present(Str_TRUE)
    /\ tunnel_store["t1"].annotation = Present(Str_false)
    /\ tunnel_store["t2"].exists /\ tunnel_store["t2"].annotation = Absent

\* C20: an Ingress without class reference is queued when its event arrives,
\* and its reconcile makes the default lookup: bound to the default tunnel
\* when there is exactly one, MissingDefaultTunnel otherwise.
C20_ClasslessIngressUsesDefault ==
    /\ (ingress_last.kind = "event" /\ ingress_last.ingress.class_name = Absent) =>
           ingress_queued
    /\ (ingress_last.kind = "reconcile" /\ ingress_last.ingress.class_name = Absent) =>
           /\ "defaultLookup" \in ingress_last.out.steps
           /\ IF default_tunnel(tunnel_store) # Absent
              THEN Present(ingress_last.out.tunnel) = default_tunnel(tunnel_store)
              ELSE ingress_last.out.res = Err("MissingDefaultTunnel")

\* C21: an ingress reconcile of an Ingress whose class is owned by this
\* controller and whose parameters name the tunnel resource's apiGroup and
\* kind, scope Namespace, the namespace and a tunnel present in the tunnel
\* store binds the Ingress to that tunnel and returns a requeue.
C21_NamespaceParametersBound ==
    \A n \in TunnelNames :
        ( /\ ingress_last.kind = "reconcile"
          /\ controller_name(ingress_last.class) = Present(INGRESS_CONTROLLER)
          /\ ingress_last.class.parameters =
                 Present(Parameters(Present(CrdGroup), CrdKind, Present("Namespace"),
                                    Present(Namespace), n))
          /\ tunnel_store[n].exists )
        => /\ ingress_last.out.tunnel = n
           /\ ingress_last.out.res.kind = "Requeue"

\* C25: the Ingress stream is filtered against the class store, and an
\* Ingress is queued or reconciled, only after the class store has taken its
\* initial list; an Ingress whose class the store holds as owned passes the
\* filter.
C25_FilterAfterClassStoreReady ==
    /\ ingress_last.kind \in {"event", "reconcile"} => class_store_ready
    /\ ingress_queued => class_store_ready
    /\ ingress_start = "run" => class_store_ready
    /\ ( /\ ingress_last.kind = "event"
         /\ controller_name(ingress_last.class) = Present(INGRESS_CONTROLLER) )
       => ingress_last.admitted /\ ingress_queued

\* the first Ingress event after the start passed the filter
C25_Witness ==
    /\ ingress_last.kind = "event" /\ ingress_last.admitted /\ ingress_queued
    /\ class_store_ready /\ ingress_requeue = AwaitChange

\* the Ingress refers to class c1 and the class store holds c1 as a class of
\* this controller
RefersToOwnedClass ==
    /\ ingress.exists
    /\ ingress.class_name = Present("c1")
    /\ ingress_class_store["c1"].exists
    /\ controller_name(ingress_class_store["c1"]) = Present(INGRESS_CONTROLLER)

\* the Ingress has just been reconciled against the class the store holds
ReconciledAgainstClass ==
    /\ ingress_last.kind = "reconcile"
    /\ ingress_last.class = ingress_class_store["c1"]
    /\ "classLookup" \in ingress_last.out.steps

\* C22: an ingress reconcile that finds the class of the Ingress absent from
\* the class store does not fail; and whenever the Ingress refers to a class
\* the store holds as owned, the Ingress is eventually reconciled against
\* that class (unless the class or the reference goes away first).
C22_AbsentClassReevaluated ==
    /\ []( ( /\ ingress_last.kind = "reconcile"
             /\ ingress_last.ingress.class_name # Absent
             /\ ~ingress_last.class.exists )
           => ingress_last.out.res.kind \notin {"Err", "Panicked"} )
    /\ RefersToOwnedClass ~> (ReconciledAgainstClass \/ ~RefersToOwnedClass)

\* the class parameters of the Ingress's owned class are valid and name the
\* tunnel t1 of namespace ns1
RefersToTunnelByParameters ==
    /\ RefersToOwnedClass
    /\ ingress_class_store["c1"].parameters =
           Present(Parameters(Present(CrdGroup), CrdKind, Present("Namespace"),
                              Present(Namespace), "t1"))

\* C24: an ingress reconcile that finds the tunnel named by valid class
\* parameters absent from the tunnel store leaves a timed requeue pending; and
\* whenever the Ingress is queued while that tunnel is in the store, the
\* Ingress is eventually resolved to it (unless the tunnel, the class or the
\* reference goes away first).
C24_MissingTunnelRetried ==
    /\ []( ( /\ ingress_last.kind = "reconcile"
             /\ RefersToTunnelByParameters
             /\ ~tunnel_store["t1"].exists )
           => ingress_requeue.kind = "Requeue" )
    /\ (RefersToTunnelByParameters /\ tunnel_store["t1"].exists /\ ingress_queued)
         ~> ( \/ ingress_last.kind = "reconcile" /\ ingress_last.out.tunnel = "t1"
              \/ ~(RefersToTunnelByParameters /\ tunnel_store["t1"].exists) )

\* C23: an ingress reconcile whose class parameters name a kind or an
\* apiGroup other than the tunnel resource's ends with
\* InvalidIngressClassParameters, does not panic, and leaves no timed requeue
\* pending for the Ingress.
C23_InvalidParametersTerminal ==
    ( /\ ingress_last.kind = "reconcile"
      /\ ingress_last.class.exists
      /\ ingress_last.class.parameters # Absent
      /\ \/ Unwrap(ingress_last.class.parameters).kind # CrdKind
         \/ Unwrap(ingress_last.class.parameters).api_group # Present(CrdGroup) )
    => /\ ingress_last.out.res = Err("InvalidIngressClassParameters")
       /\ ingress_requeue.kind # "Requeue"

\* C28: an ingress reconcile, whatever its outcome, makes only lookups in the
\* class store and the tunnel store; it changes neither store, nor the
\* Ingress, nor any object of the cluster or tunnel of the remote API.
C28_ResolutionReadsOnly ==
    [][ ingress_last'.kind = "reconcile"
        => /\ ingress_last'.out.steps \subseteq StoreReads
           /\ UNCHANGED <<ingress, ingress_class_store, tunnel_store>>
           /\ UNCHANGED <<tunnel, other, secret, deployment, credentials, remote, created>> ]_vars

\* an Ingress was bound to the default tunnel
C28_Witness ==
    /\ ingress_last.kind = "reconcile"
    /\ ingress_last.out.tunnel = "t1"
    /\ ingress_last.out.res = Requeue(60)
    /\ tunnel_store["t1"].exists

\* C29: the mapping of a response is a Success when the status is 2xx and
\* the body parses, the Invalid failure when the status is 2xx and the body
\* does not parse, and otherwise the Error failure with that status and the
\* parsed error list, or the empty list when the body does not parse.
C29_ResponseMapping ==
    mapped # NotMapped =>
        /\ mapped.kind \in {"Success", "Invalid", "Error"}
        /\ (response.status \in 200 .. 299 /\ response.body.as_success # Absent)
               => mapped = ApiSuccess(Unwrap(response.body.as_success))
        /\ (response.status \in 200 .. 299 /\ response.body.as_success = Absent)
               => mapped = ApiFailureInvalid
        /\ response.status \notin 200 .. 299
               => /\ mapped.kind = "Error"
                  /\ mapped.status = response.status
                  /\ mapped.errors = IF response.body.as_errors = Absent THEN <<>>
                                     ELSE Unwrap(response.body.as_errors)

\* a 502 whose body is not JSON became Error(502, no errors)
C29_Witness ==
    /\ response.status = 502 /\ response.body.as_errors = Absent
    /\ mapped = ApiFailureError(502, <<>>)

\* C30: in a Delete reconcile, delete_resources issues one delete for the
\* Deployment and one for the Secret, and when it has returned success (the
\* reconcile went on to the finalizer) neither owned resource exists.
C30_DeleteResourcesDeletesBoth ==
    (build = "crate" /\ last.action = "Delete") =>
        /\ Cardinality(Calls("deleteSecret") \cup Calls("deleteDeployment")) >= 2
               => /\ Cardinality(Calls("deleteDeployment")) = 1
                  /\ Cardinality(Calls("deleteSecret")) = 1
        /\ Made("removeFinalizer") => ~secret /\ ~deployment

\* C27: a Create or Delete reconcile of an object without namespace ends
\* with the MissingNamespace error as its result and the controller keeps
\* running.
C27_MissingNamespaceIsAnError ==
    (last.action \in {"Create", "Delete"} /\ last.gen.namespace = Absent) =>
        /\ last.res = Err("MissingNamespace")
        /\ up

\* C26: reconciles of the tunnel key run one after the other (each Reconcile
\* step is one whole reconcile, a key queued meanwhile runs afterwards), and
\* two Create reconciles never both call createTunnel: once a Create has
\* made the remote tunnel and persisted its remoteId, no later Create of the
\* object calls createTunnel.
C26_CreatesNeverBothCallCreateTunnel ==
    [][ (tunnel.exists /\ tunnel.uuid # 0 /\ last'.action = "Create")
        => \A i \in 1 .. Len(last'.calls) : last'.calls[i].op # "createTunnel" ]_vars

\* C31: after remove_finalizer has returned success for the tunnel named
\* `name` in its namespace, that object does not carry the lifecycle
\* finalizer, whether or not the name equals the namespace.
C31_RemoveFinalizerPatchesTheTunnel ==
    ( /\ last.action = "remove_finalizer"
      /\ Succeeded("removeFinalizer") )
    => ~(tunnel.exists /\ Lifecycle(tunnel))

\* C37: a successful add_finalizer or remove_finalizer changes the membership
\* of the lifecycle finalizer alone: every other finalizer of the tunnel
\* object stays, the object is not released while another finalizer is on
\* it, and no other field changes.
C37_FinalizerPatchKeepsOtherFinalizers ==
    [][ ( /\ last'.action \in {"add_finalizer", "remove_finalizer"}
          /\ last'.calls # <<>>
          /\ IsSuccess(last'.calls[1].code) )
        => IF tunnel'.exists
           THEN /\ tunnel'.finalizers.items \ {FINALIZER_NAME}
                       = tunnel.finalizers.items \ {FINALIZER_NAME}
                /\ tunnel' = [tunnel EXCEPT !.finalizers = tunnel'.finalizers]
           ELSE tunnel.finalizers.items \subseteq {FINALIZER_NAME} ]_vars

\* C32: a Delete reconcile of a tunnel with remoteId set whose credentials
\* object is missing ends with MissingCredentials: it makes no remote delete
\* call, deletes no owned resource and does not patch the finalizer away.
C32_DeleteWithoutCredentialsStops ==
    ( /\ last.action = "Delete" /\ last.gen.uuid # 0
      /\ \E i \in Calls("getCredentials") : last.calls[i].code = 404 )
    => /\ last.res = Err("MissingCredentials")
       /\ ~Made("deleteTunnel")
       /\ ~Made("deleteSecret") /\ ~Made("deleteDeployment")
       /\ ~Made("removeFinalizer")

\* C33: when the remote delete of a Delete reconcile fails with anything but
\* 404 or 403 (another status, no usable answer), the reconcile returns the
\* remote API failure, makes no owned-resource delete and no finalizer
\* patch, and the object is as it was, its finalizers included.
C33_RemoteDeleteFailureStops ==
    [][ ( /\ build = "crate" /\ last'.action = "Delete"
          /\ \E i \in 1 .. Len(last'.calls) :
                /\ last'.calls[i].op = "deleteTunnel"
                /\ ~IsSuccess(last'.calls[i].code)
                /\ last'.calls[i].code \notin {404, 403} )
        => /\ last'.res = Err("CloudflareApiFailure")
           /\ \A i \in 1 .. Len(last'.calls) :
                 last'.calls[i].op \notin {"deleteSecret", "deleteDeployment", "removeFinalizer"}
           /\ tunnel' = tunnel
           /\ secret' = secret /\ deployment' = deployment ]_vars

C33_Witness ==
    /\ build = "crate" /\ last.action = "Delete"
    /\ \E i \in Calls("deleteTunnel") : last.calls[i].code = NoStatus
    /\ last.res = Err("CloudflareApiFailure")
    /\ tunnel.exists /\ Lifecycle(tunnel)

\* C34: a Delete reconcile of a tunnel whose remoteId is unset, none of whose
\* calls meets a fault, looks up no credentials and makes no remote call; it
\* goes on to delete the owned resources and to remove the finalizer, and
\* returns success, whether or not the credentials object exists.
C34_DeleteWithoutRemoteIdSucceeds ==
    ( /\ build = "crate" /\ last.action = "Delete" /\ last.gen.uuid = 0
      /\ last.res.kind # "Crashed"
      /\ \A i \in 1 .. Len(last.calls) : last.calls[i].code \notin {NoStatus, 500, 403} )
    => /\ ~Made("getCredentials") /\ ~Made("deleteTunnel")
       /\ Made("removeFinalizer")
       /\ last.res = AwaitChange

\* C36: the tunnel object leaves the cluster only when the remote tunnel its
\* remoteId names does not exist (it was deleted or never created); so a
\* delete request that arrives after the remoteId was persisted and before
\* the finalizer was added leaves no remote tunnel behind.
C36_NoOrphanedRemoteTunnel ==
    [][ (tunnel.exists /\ ~tunnel'.exists /\ tunnel.uuid # 0)
        => tunnel.uuid \notin remote' ]_vars

\* C38: an ingress reconcile that looks a tunnel up in the tunnel store, by
\* the parameters of the class or as the default tunnel, runs after the
\* tunnel store has taken its initial list.
C38_TunnelLookupAfterTunnelStoreReady ==
    ( /\ ingress_last.kind = "reconcile"
      /\ ingress_last.out.steps \cap {"tunnelLookup", "defaultLookup"} # {} )
    => tunnel_store_ready

\* C39: an ingress reconcile returns a value whatever the IngressClass
\* holds: it never panics.
C39_IngressReconcileNeverPanics ==
    ingress_last.kind = "reconcile" => ingress_last.out.res.kind # "Panicked"

\* C35: an ingress reconcile whose owned class has parameters that name the
\* tunnel resource's apiGroup and kind looks the tunnel up in the tunnel
\* store under the key the scope gives: (namespace, name) with scope
\* Namespace, where a missing namespace finds nothing, and the name without
\* namespace with scope Cluster or no scope; the Ingress is bound to the
\* tunnel found, and the result is MissingTunnel when none is found.
C35_LookupKeyFollowsScope ==
    \A ps \in ParameterValues :
        ( /\ ingress_last.kind = "reconcile"
          /\ controller_name(ingress_last.class) = Present(INGRESS_CONTROLLER)
          /\ ingress_last.class.parameters = Present(ps)
          /\ ps.api_group = Present(CrdGroup) /\ ps.kind = CrdKind )
        => LET namespace == IF ps.scope = Present("Namespace") THEN ps.namespace ELSE Absent
               found == tunnel_store_get(tunnel_store, ps.name, namespace)
           IN  /\ "tunnelLookup" \in ingress_last.out.steps
               /\ IF found # Absent THEN ingress_last.out.tunnel = Unwrap(found)
                  ELSE ingress_last.out.res = Err("MissingTunnel")

====
